---- MODULE Spec2Model ----
(***************************************************************************)
(* Model of sc2/distances.py: class DistanceCalculation, the per-frame     *)
(* cache of pairwise squared distances between the units of a game state.  *)
(*                                                                         *)
(* Coordinates are integers, so every squared distance is exact.  A numpy  *)
(* array is a record [kind, data]: kind "None" is Python's None, "vector"  *)
(* a 1-d array, "matrix" a 2-d array given as the sequence of its rows.    *)
(* Python indices are zero-based; TLA+ sequences are one-based, so element *)
(* k of an array is data[k + 1].                                           *)
(***************************************************************************)
EXTENDS Integers, Sequences, FiniteSets, TLC

VARIABLES
    game_loop,                      \* self.state.game_loop
    all_units,                      \* self.all_units: sequence of [tag, position_tuple]
    generated_frame2,               \* self._generated_frame2
    cached_pdist,                   \* self._cached_pdist
    cached_cdist,                   \* self._cached_cdist
    distance_squared_unit_to_unit,  \* the method bound to self._distance_squared_unit_to_unit
    calculate_distances,            \* the method bound to self.calculate_distances
    builds_in_frame,                \* probe: builds run since the frame counter last changed
    ret                             \* probe: what the last call did and returned

vars == <<game_loop, all_units, generated_frame2, cached_pdist, cached_cdist,
          distance_squared_unit_to_unit, calculate_distances, builds_in_frame, ret>>

cache == <<generated_frame2, cached_pdist, cached_cdist>>

binding == <<distance_squared_unit_to_unit, calculate_distances>>

----------------------------------------------------------------------------
(* Bounds of the model. *)

MaxUnits == 3

MaxFrame == 1

MaxN == 4

MaxBuilds == 2

MaxPoints == 2

Tags == 1..MaxUnits

Points == {<<0, 0>>, <<3, 4>>}

RoundTripPoints == {<<0, 0>>, <<3, 4>>, <<0, 4>>}

Modes == -1..4

\* The unit containers a frame can hold: unit k carries tag k.
EntitySets ==
    UNION {{s \in [1..n -> [tag : Tags, position_tuple : Points]] :
              \A k \in 1..n : s[k].tag = k} : n \in 0..MaxUnits}

\* Unit containers in which a unit's position may yield one coordinate only.
BrokenSets ==
    UNION {{s \in [1..n -> [tag : Tags, position_tuple : Points \cup {<<3>>}]] :
              \A k \in 1..n : s[k].tag = k} : n \in 0..MaxUnits}

\* the point lists a caller passes to the unit-to-points function
PointLists == UNION {[1..n -> Points] : n \in 0..MaxPoints}

\* The unit containers of the index round trip: unit k carries tag k.
RoundTripSets ==
    UNION {{s \in [1..n -> [tag : 1..MaxN, position_tuple : RoundTripPoints]] :
              \A k \in 1..n : s[k].tag = k} : n \in 0..MaxN}

----------------------------------------------------------------------------
(* numpy / scipy primitives, modelled by what they compute. *)

NoneArray == [kind |-> "None", data |-> <<>>]

Vector(d) == [kind |-> "vector", data |-> d]

Matrix(d) == [kind |-> "matrix", data |-> d]

SameArray(x, y) == x.kind = y.kind /\ x.data = y.data

\* scipy "sqeuclidean" metric of two rows of the position array
sqeuclidean(u, v) == (u[1] - v[1]) * (u[1] - v[1]) + (u[2] - v[2]) * (u[2] - v[2])

\* the rows i < j of an n-row array in the order pdist visits them:
\* i ascending and, for each i, j ascending from i + 1
RECURSIVE PdistPairs(_, _)
PdistPairs(i, n) ==
    IF i >= n - 1 THEN <<>>
    ELSE [k \in 1..(n - 1 - i) |-> <<i, i + k>>] \o PdistPairs(i + 1, n)

\* scipy.spatial.distance.pdist(X, "sqeuclidean")
pdist(X) ==
    LET pairs == PdistPairs(0, Len(X))
    IN  Vector([k \in 1..Len(pairs) |-> sqeuclidean(X[pairs[k][1] + 1], X[pairs[k][2] + 1])])

\* scipy.spatial.distance.cdist(XA, XB, "sqeuclidean")
cdist(XA, XB) ==
    Matrix([i \in 1..Len(XA) |-> [j \in 1..Len(XB) |-> sqeuclidean(XA[i], XB[j])]])

\* a generator expression, given as the sequence of the values it yields
Generator(d) == [kind |-> "generator", data |-> d]

\* math.hypot(x, y): the square root of x*x + y*y, here its whole part; the
\* points of the model lie at whole distances from each other
hypot(x, y) ==
    LET Abs(v) == IF v < 0 THEN 0 - v ELSE v
    IN  CHOOSE r \in 0..(Abs(x) + Abs(y)) :
            r * r <= x * x + y * y /\ (r + 1) * (r + 1) > x * x + y * y

\* len(a)
ArrayLen(a) == Len(a.data)

\* a[k] for an integer k: negative indices count from the end
Index1(a, k) ==
    IF a.kind = "None" THEN [outcome |-> "TypeError", value |-> 0, array |-> NoneArray]
    ELSE IF k < 0 - ArrayLen(a) \/ k >= ArrayLen(a)
         THEN [outcome |-> "IndexError", value |-> 0, array |-> NoneArray]
    ELSE LET e == a.data[IF k < 0 THEN k + ArrayLen(a) + 1 ELSE k + 1]
         IN  IF a.kind = "vector"
             THEN [outcome |-> "return", value |-> e, array |-> NoneArray]
             ELSE [outcome |-> "return", value |-> 0, array |-> Vector(e)]

\* a[i, j]: two indices need a 2-d array
Index2(a, i, j) ==
    IF a.kind = "None" THEN [outcome |-> "TypeError", value |-> 0, array |-> NoneArray]
    ELSE IF a.kind = "vector" THEN [outcome |-> "IndexError", value |-> 0, array |-> NoneArray]
    ELSE LET n == ArrayLen(a)
         IN  IF i < 0 - n \/ i >= n \/ j < 0 - n \/ j >= n
             THEN [outcome |-> "IndexError", value |-> 0, array |-> NoneArray]
             ELSE [outcome |-> "return",
                   value |-> a.data[IF i < 0 THEN i + n + 1 ELSE i + 1]
                                   [IF j < 0 THEN j + n + 1 ELSE j + 1],
                   array |-> NoneArray]

----------------------------------------------------------------------------
(* The class. *)

units_count == Len(all_units)

\* np.fromiter(flat_positions, count=2 * n).reshape((n, 2)): row k is unit k's position
positions_array == [k \in 1..units_count |-> all_units[k].position_tuple]

\* np.fromiter(flat_positions, count=2 * n) finds its iterator too short: some
\* unit's position_tuple yields fewer than two coordinates (the positions of
\* the model have at most two)
flat_positions_short == \E k \in 1..units_count : Len(all_units[k].position_tuple) < 2

\* What a call leaves behind: its outcome, what it returns, the cache fields
\* as it leaves them and how many builds it ran.
Effect(o, v, a, gf, pd, cd, b) ==
    [outcome |-> o, value |-> v, array |-> a,
     generated_frame2 |-> gf, cached_pdist |-> pd, cached_cdist |-> cd, builds |-> b]

\* a call that changes nothing
Pure(o, v, a) == Effect(o, v, a, generated_frame2, cached_pdist, cached_cdist, 0)

\* variant: the condensed build refuses a frame without units
calculate_distances_method1_nonempty ==
    IF flat_positions_short
    THEN Effect("ValueError", 0, NoneArray, game_loop, cached_pdist, cached_cdist, 1)
    ELSE IF units_count = 0
    THEN Effect("AssertionError", 0, NoneArray, game_loop, cached_pdist, cached_cdist, 1)
    ELSE LET d == pdist(positions_array)
         IN  Effect("return", 0, d, game_loop, d, cached_cdist, 1)

calculate_distances_method1 ==
    IF flat_positions_short
    THEN Effect("ValueError", 0, NoneArray, game_loop, cached_pdist, cached_cdist, 1)
    ELSE IF Len(positions_array) # units_count
    THEN Effect("AssertionError", 0, NoneArray, game_loop, cached_pdist, cached_cdist, 1)
    ELSE LET d == pdist(positions_array)
         IN  Effect("return", 0, d, game_loop, d, cached_cdist, 1)

\* variant: the square build forgets to stamp the frame it builds for
calculate_distances_method2_unstamped ==
    IF flat_positions_short
    THEN Effect("ValueError", 0, NoneArray, generated_frame2, cached_pdist, cached_cdist, 1)
    ELSE IF Len(positions_array) # units_count
    THEN Effect("AssertionError", 0, NoneArray, generated_frame2, cached_pdist, cached_cdist, 1)
    ELSE LET d == cdist(positions_array, positions_array)
         IN  Effect("return", 0, d, generated_frame2, cached_pdist, d, 1)

calculate_distances_method2 ==
    IF flat_positions_short
    THEN Effect("ValueError", 0, NoneArray, game_loop, cached_pdist, cached_cdist, 1)
    ELSE IF Len(positions_array) # units_count
    THEN Effect("AssertionError", 0, NoneArray, game_loop, cached_pdist, cached_cdist, 1)
    ELSE LET d == cdist(positions_array, positions_array)
         IN  Effect("return", 0, d, game_loop, cached_pdist, d, 1)

calculate_distances_method3 ==
    IF flat_positions_short
    THEN Effect("ValueError", 0, NoneArray, game_loop, cached_pdist, cached_cdist, 1)
    ELSE LET d == cdist(positions_array, positions_array)
         IN  Effect("return", 0, d, game_loop, cached_pdist, d, 1)

\* self.calculate_distances(): whatever _distances_override_functions bound
CalculateDistances ==
    CASE calculate_distances = "method1" -> calculate_distances_method1
      [] calculate_distances = "method2" -> calculate_distances_method2
      [] calculate_distances = "method3" -> calculate_distances_method3
      [] OTHER -> Pure("AttributeError", 0, NoneArray)

\* variant: _pdist rebuilds only while nothing is cached, whatever the frame
pdist_property_ignoring_frame ==
    IF cached_pdist.kind = "None" THEN CalculateDistances
    ELSE Pure("return", 0, cached_pdist)

\* property _pdist
pdist_property ==
    IF generated_frame2 # game_loop THEN CalculateDistances
    ELSE Pure("return", 0, cached_pdist)

\* variant: _cdist also rebuilds when the matrix is not of the units' count
cdist_property_keyed_by_count ==
    IF generated_frame2 # game_loop \/ ArrayLen(cached_cdist) # units_count
    THEN CalculateDistances
    ELSE Pure("return", 0, cached_cdist)

\* property _cdist
cdist_property ==
    IF generated_frame2 # game_loop THEN CalculateDistances
    ELSE Pure("return", 0, cached_cdist)

\* variant: the triangle term of the offset is taken one row too early
condensed_offset_row_early(i, j) ==
    LET hi == IF i < j THEN j ELSE i
        lo == IF i < j THEN i ELSE j
    IN  units_count * lo - (lo * (lo - 1)) \div 2 + hi - 1 - lo

\* variant: the offset without the exchange that puts the larger index first
condensed_offset_unswapped(i, j) ==
    units_count * j - (j * (j + 1)) \div 2 + i - 1 - j

\* square_to_condensed(i, j), read off the unit count of the call's moment
condensed_offset(i, j) ==
    LET hi == IF i < j THEN j ELSE i
        lo == IF i < j THEN i ELSE j
    IN  units_count * lo - (lo * (lo + 1)) \div 2 + hi - 1 - lo

\* variant: the index mapping without its assertion on the diagonal
square_to_condensed_unasserted(i, j) ==
    Pure("return", condensed_offset(i, j), NoneArray)

square_to_condensed(i, j) ==
    IF i = j THEN Pure("AssertionError", 0, NoneArray)
    ELSE Pure("return", condensed_offset(i, j), NoneArray)

distance_math_hypot(p1, p2) == hypot(p1[1] - p2[1], p1[2] - p2[2])

\* variant: the second coordinate's difference is not squared
distance_math_hypot_squared_unsquared(p1, p2) ==
    (p1[1] - p2[1]) * (p1[1] - p2[1]) + (p1[2] - p2[2])

distance_math_hypot_squared(p1, p2) ==
    (p1[1] - p2[1]) * (p1[1] - p2[1]) + (p1[2] - p2[2]) * (p1[2] - p2[2])

\* variant: strategy 0 reads the square matrix property before it computes
distance_squared_unit_to_unit_method0_warming(unit1, unit2) ==
    LET c == cdist_property
    IN  Effect("return",
               distance_math_hypot_squared(unit1.position_tuple, unit2.position_tuple),
               NoneArray, c.generated_frame2, c.cached_pdist, c.cached_cdist, c.builds)

distance_squared_unit_to_unit_method0(unit1, unit2) ==
    Pure("return", distance_math_hypot_squared(unit1.position_tuple, unit2.position_tuple),
         NoneArray)

\* variant: strategy 1 without the shortcut for equal tags
distance_squared_unit_to_unit_method1_no_shortcut(unit1, unit2) ==
    LET c == square_to_condensed(unit1.distance_calculation_index,
                                 unit2.distance_calculation_index)
    IN  IF c.outcome # "return" THEN c
        ELSE IF cached_pdist.kind = "None" THEN Pure("TypeError", 0, NoneArray)
        ELSE IF ~(c.value < ArrayLen(cached_pdist)) THEN Pure("AssertionError", 0, NoneArray)
        ELSE LET p == pdist_property
                 e == Index1(p.array, c.value)
             IN  IF p.outcome # "return" THEN p
                 ELSE Effect(e.outcome, e.value, e.array,
                             p.generated_frame2, p.cached_pdist, p.cached_cdist, p.builds)

distance_squared_unit_to_unit_method1(unit1, unit2) ==
    IF unit1.tag = unit2.tag THEN Pure("return", 0, NoneArray)
    ELSE LET c == square_to_condensed(unit1.distance_calculation_index,
                                      unit2.distance_calculation_index)
         IN  IF c.outcome # "return" THEN c
             ELSE IF cached_pdist.kind = "None" THEN Pure("TypeError", 0, NoneArray)
             ELSE IF ~(c.value < ArrayLen(cached_pdist)) THEN Pure("AssertionError", 0, NoneArray)
             ELSE LET p == pdist_property
                      e == Index1(p.array, c.value)
                  IN  IF p.outcome # "return" THEN p
                      ELSE Effect(e.outcome, e.value, e.array,
                                  p.generated_frame2, p.cached_pdist, p.cached_cdist, p.builds)

distance_squared_unit_to_unit_method2(unit1, unit2) ==
    LET c == cdist_property
        e == Index2(c.array, unit1.distance_calculation_index, unit2.distance_calculation_index)
    IN  IF c.outcome # "return" THEN c
        ELSE Effect(e.outcome, e.value, e.array,
                    c.generated_frame2, c.cached_pdist, c.cached_cdist, c.builds)

distance_pos_to_pos(pos1, pos2) ==
    Pure("return", distance_math_hypot(pos1, pos2), NoneArray)

\* the generator of _distance_units_to_pos, run to its end
distance_units_to_pos(units, pos) ==
    Pure("return", 0,
         Generator([k \in 1..Len(units) |-> distance_math_hypot(units[k].position_tuple, pos)]))

\* variant: the distances come out last point first
distance_unit_to_points_reversed(unit, points) ==
    Pure("return", 0,
         Generator([k \in 1..Len(points) |->
                       distance_math_hypot(points[Len(points) + 1 - k], unit.position_tuple)]))

\* the generator of _distance_unit_to_points, run to its end
distance_unit_to_points(unit, points) ==
    Pure("return", 0,
         Generator([k \in 1..Len(points) |-> distance_math_hypot(points[k], unit.position_tuple)]))

\* self._distance_squared_unit_to_unit(unit1, unit2): whatever was bound
DistanceSquared(unit1, unit2) ==
    CASE distance_squared_unit_to_unit = "method0" ->
             distance_squared_unit_to_unit_method0(unit1, unit2)
      [] distance_squared_unit_to_unit = "method1" ->
             distance_squared_unit_to_unit_method1(unit1, unit2)
      [] distance_squared_unit_to_unit = "method2" ->
             distance_squared_unit_to_unit_method2(unit1, unit2)
      [] OTHER -> Pure("AttributeError", 0, NoneArray)

----------------------------------------------------------------------------
(* The callers' unit objects. *)

UnitObject(t, i, p) == [tag |-> t, distance_calculation_index |-> i, position_tuple |-> p]

\* the units of the current frame, each indexed by its place in all_units
CurrentUnits ==
    {UnitObject(all_units[k].tag, k - 1, all_units[k].position_tuple) : k \in 1..units_count}

\* unit objects whose index lies outside [0, N)
StrayUnits ==
    {UnitObject(t, i, <<0, 0>>) : t \in Tags, i \in {-1, units_count}}

\* the pairs a caller passes: two units of the frame, or one of them and a stray
UnitPairs == (CurrentUnits \X CurrentUnits) \cup (CurrentUnits \X StrayUnits)

\* unit objects a caller still holds when the frame has no units
LeftUnits == {UnitObject(t, i, <<0, 0>>) : t \in 1..2, i \in -2..1}

----------------------------------------------------------------------------
(* Steps. *)

\* how a call used its two unit arguments: the same unit of the frame twice,
\* two different units of the frame, or a unit object that is not of the frame
Use(unit1, unit2) ==
    IF unit1 \notin CurrentUnits \/ unit2 \notin CurrentUnits THEN "stray"
    ELSE IF unit1 = unit2 THEN "self"
    ELSE "pair"

Result(op, use, e) ==
    [op |-> op, use |-> use, outcome |-> e.outcome, value |-> e.value, array |-> e.array,
     builds |-> e.builds]

\* a call takes effect: the cache fields, the build probe and the return probe;
\* use records how a query used its unit arguments and, for the two sequence
\* functions, the arguments themselves
Apply(op, use, e) ==
    /\ ret' = Result(op, use, e)
    /\ generated_frame2' = e.generated_frame2
    /\ cached_pdist' = e.cached_pdist
    /\ cached_cdist' = e.cached_cdist
    /\ builds_in_frame' = builds_in_frame + e.builds

\* __init__, and the game state of the first frame
Constructed ==
    /\ game_loop = 0
    /\ generated_frame2 = -100
    /\ cached_pdist = NoneArray
    /\ cached_cdist = NoneArray
    /\ distance_squared_unit_to_unit = "unbound"
    /\ calculate_distances = "unbound"
    /\ builds_in_frame = 0
    /\ ret = Result("init", "none", Pure("return", 0, NoneArray))

Init ==
    /\ all_units \in EntitySets
    /\ Constructed

\* variant: the selection without its range assertion; a mode that matches no
\* branch binds nothing and returns
DistancesOverrideFunctions_unchecked(method) ==
    /\ distance_squared_unit_to_unit' =
           CASE method = 0 -> "method0"
             [] method = 1 -> "method1"
             [] method \in {2, 3} -> "method2"
             [] OTHER -> distance_squared_unit_to_unit
    /\ calculate_distances' =
           CASE method = 1 -> "method1"
             [] method = 2 -> "method2"
             [] method = 3 -> "method3"
             [] OTHER -> calculate_distances
    /\ Apply("select", "none", Pure("return", 0, NoneArray))
    /\ UNCHANGED <<game_loop, all_units>>

\* _distances_override_functions(method)
DistancesOverrideFunctions(method) ==
    /\ IF ~(0 <= method /\ method <= 3)
       THEN /\ UNCHANGED binding
            /\ Apply("select", "none", Pure("AssertionError", 0, NoneArray))
       ELSE /\ distance_squared_unit_to_unit' =
                   CASE method = 0 -> "method0"
                     [] method = 1 -> "method1"
                     [] OTHER -> "method2"
            /\ calculate_distances' =
                   CASE method = 0 -> calculate_distances
                     [] method = 1 -> "method1"
                     [] method = 2 -> "method2"
                     [] OTHER -> "method3"
            /\ Apply("select", "none", Pure("return", 0, NoneArray))
    /\ UNCHANGED <<game_loop, all_units>>

\* the simulation steps to the next frame and hands over that frame's units
AdvanceFrame(units) ==
    /\ game_loop < MaxFrame
    /\ game_loop' = game_loop + 1
    /\ all_units' = units
    /\ builds_in_frame' = 0
    /\ ret' = Result("frame", "none", Pure("return", 0, NoneArray))
    /\ UNCHANGED <<cache, binding>>

\* the caller replaces the unit container while the frame counter stands
ReplaceUnits(units) ==
    /\ units # all_units
    /\ all_units' = units
    /\ ret' = Result("replace", "none", Pure("return", 0, NoneArray))
    /\ UNCHANGED <<game_loop, cache, binding, builds_in_frame>>

\* squared_distance(unit1, unit2)
Query(unit1, unit2) ==
    /\ Apply("squared_distance", Use(unit1, unit2), DistanceSquared(unit1, unit2))
    /\ UNCHANGED <<game_loop, all_units, binding>>

\* a read of the property _pdist
AccessPdist ==
    /\ Apply("pdist", "none", pdist_property)
    /\ UNCHANGED <<game_loop, all_units, binding>>

\* a read of the property _cdist
AccessCdist ==
    /\ Apply("cdist", "none", cdist_property)
    /\ UNCHANGED <<game_loop, all_units, binding>>

\* a direct call of square_to_condensed(i, j)
SquareToCondensed(i, j) ==
    /\ Apply("square_to_condensed", "none", square_to_condensed(i, j))
    /\ UNCHANGED <<game_loop, all_units, binding>>

\* _distance_pos_to_pos(pos1, pos2)
DistancePosToPos(pos1, pos2) ==
    /\ Apply("distance_pos_to_pos", "none", distance_pos_to_pos(pos1, pos2))
    /\ UNCHANGED <<game_loop, all_units, binding>>

\* _distance_units_to_pos(units, pos), consumed by the caller
DistanceUnitsToPos(units, pos) ==
    /\ Apply("distance_units_to_pos", <<units, pos>>, distance_units_to_pos(units, pos))
    /\ UNCHANGED <<game_loop, all_units, binding>>

\* _distance_unit_to_points(unit, points), consumed by the caller
DistanceUnitToPoints(unit, points) ==
    /\ Apply("distance_unit_to_points", <<unit, points>>, distance_unit_to_points(unit, points))
    /\ UNCHANGED <<game_loop, all_units, binding>>

\* direct calls of the two checked builds
BuildCondensed ==
    /\ Apply("build_condensed", "none", calculate_distances_method1)
    /\ UNCHANGED <<game_loop, all_units, binding>>

BuildSquare ==
    /\ Apply("build_square", "none", calculate_distances_method2)
    /\ UNCHANGED <<game_loop, all_units, binding>>

\* the bound query function answers from a cached structure
CachedStrategy == distance_squared_unit_to_unit \in {"method1", "method2"}

\* A session as documented: the strategy is selected at game start, before
\* units are queried, and kept.
Next ==
    \/ \E method \in Modes :
          distance_squared_unit_to_unit = "unbound" /\ DistancesOverrideFunctions(method)
    \/ \E units \in EntitySets : AdvanceFrame(units)
    \/ \E pair \in UnitPairs : Query(pair[1], pair[2])
    \/ \E unit1 \in LeftUnits, unit2 \in LeftUnits :
          units_count = 0 /\ Query(unit1, unit2)
    \/ AccessPdist
    \/ AccessCdist

Spec == Init /\ [][Next]_vars

\* the containers that hold the units of the current frame, moved
MovedSets ==
    {s \in EntitySets : /\ Len(s) = units_count
                        /\ \A k \in 1..units_count : s[k].tag = all_units[k].tag}

\* A session in which the caller selects a strategy whenever it likes; the
\* units live on from frame to frame and move, and only they are queried.
NextSwitch ==
    \/ \E method \in Modes : DistancesOverrideFunctions(method)
    \/ \E units \in MovedSets : AdvanceFrame(units)
    \/ \E unit1 \in CurrentUnits, unit2 \in CurrentUnits : Query(unit1, unit2)
    \/ \E pos1 \in Points, pos2 \in Points : DistancePosToPos(pos1, pos2)
    \/ AccessPdist
    \/ AccessCdist

SpecSwitch == Init /\ [][NextSwitch]_vars

\* The index mapping and the two builds on their own, over every unit
\* container of up to MaxN units.
InitIndex ==
    /\ all_units \in RoundTripSets
    /\ Constructed

NextIndex ==
    \/ builds_in_frame < MaxBuilds /\ BuildCondensed
    \/ builds_in_frame < MaxBuilds /\ BuildSquare
    \/ \E i \in 0..MaxN, j \in 0..MaxN : SquareToCondensed(i, j)

SpecIndex == InitIndex /\ [][NextIndex]_vars

\* A session in which the units of a frame can be ill-formed, so that a build
\* can abort; the strategy is selected once and, the positions being what
\* they are, only the cached strategies are queried.
InitFault ==
    /\ all_units \in BrokenSets
    /\ Constructed

NextFault ==
    \/ \E method \in Modes :
          distance_squared_unit_to_unit = "unbound" /\ DistancesOverrideFunctions(method)
    \/ \E units \in BrokenSets : AdvanceFrame(units)
    \/ \E unit1 \in CurrentUnits, unit2 \in CurrentUnits :
          CachedStrategy /\ Query(unit1, unit2)
    \/ AccessPdist
    \/ AccessCdist

SpecFault == InitFault /\ [][NextFault]_vars

\* A session in which the unit container is replaced within a frame; the
\* strategy is selected once.
NextRekey ==
    \/ \E method \in Modes :
          distance_squared_unit_to_unit = "unbound" /\ DistancesOverrideFunctions(method)
    \/ AdvanceFrame(all_units)
    \/ \E units \in EntitySets : ReplaceUnits(units)
    \/ \E unit1 \in CurrentUnits, unit2 \in CurrentUnits : Query(unit1, unit2)
    \/ AccessPdist
    \/ AccessCdist

SpecRekey == Init /\ [][NextRekey]_vars

\* The two sequence functions, called with the first n units of the frame
\* or with one of its units, before and after the structures are built.
NextSequence ==
    \/ builds_in_frame < MaxBuilds /\ BuildCondensed
    \/ builds_in_frame < MaxBuilds /\ BuildSquare
    \/ \E n \in 0..units_count, pos \in Points :
          DistanceUnitsToPos(SubSeq(all_units, 1, n), pos)
    \/ \E u \in 1..units_count, points \in PointLists :
          DistanceUnitToPoints(all_units[u], points)

SpecSequence == Init /\ [][NextSequence]_vars

----------------------------------------------------------------------------
(* Reference notions the properties are stated with. *)

\* squared Euclidean distance of two points
SquaredEuclid(p, q) == (p[1] - q[1]) ^ 2 + (p[2] - q[2]) ^ 2

\* squared distance, in the current frame, of the units at indices i and j
FrameDistance(i, j) ==
    SquaredEuclid(all_units[i + 1].position_tuple, all_units[j + 1].position_tuple)

\* the distance of two points: the r >= 0 whose square is their squared distance
LinearDistance(p, q) == CHOOSE r \in 0..8 : r * r = SquaredEuclid(p, q)

\* the query of this pair goes to the cached structure (no shortcut)
ReadsCache(unit1, unit2) ==
    \/ distance_squared_unit_to_unit = "method2"
    \/ distance_squared_unit_to_unit = "method1" /\ unit1.tag # unit2.tag

\* the structure of the active strategy's kind, as it is after the step
ActiveStructureFresh ==
    /\ generated_frame2' = game_loop'
    /\ distance_squared_unit_to_unit = "method1" =>
           SameArray(cached_pdist', pdist(positions_array))
    /\ distance_squared_unit_to_unit = "method2" =>
           SameArray(cached_cdist', cdist(positions_array, positions_array))

----------------------------------------------------------------------------
(* C1 *)

\* C1: Freshness. Whatever the frame advances and queries before it, a value
\* that squared_distance returns for two units of the current frame under a
\* cached strategy is their squared Euclidean distance in the current frame,
\* and a value read from a structure was read from the one built for the
\* current frame out of the current positions.
C1_Freshness ==
    [][(/\ CachedStrategy
        /\ ret'.op = "squared_distance"
        /\ ret'.use \in {"self", "pair"}
        /\ ret'.outcome = "return") =>
          \A unit1 \in CurrentUnits, unit2 \in CurrentUnits :
              Query(unit1, unit2) =>
                  /\ ret'.value = FrameDistance(unit1.distance_calculation_index,
                                                unit2.distance_calculation_index)
                  /\ ReadsCache(unit1, unit2) => ActiveStructureFresh]_vars

\* a later frame's query was answered with a non-zero distance after a rebuild
\* that replaced the earlier frame's structure
C1_Witness ==
    /\ ret.op = "squared_distance" /\ ret.use = "pair" /\ ret.outcome = "return"
    /\ distance_squared_unit_to_unit = "method1"
    /\ game_loop >= 1 /\ ret.builds = 1 /\ ret.value = 25

----------------------------------------------------------------------------
(* C2 *)

\* C2: Rebuild is idempotent within one frame: the build path runs at most
\* once per frame, and a cache access that follows an access of the same
\* property in the same frame builds nothing and returns the same structure.
C2_IdempotentRebuild ==
    [][/\ builds_in_frame' <= 1
       /\ (ret.op = "pdist" /\ ret.outcome = "return" /\ AccessPdist) =>
              (ret'.builds = 0 /\ SameArray(ret'.array, ret.array))
       /\ (ret.op = "cdist" /\ ret.outcome = "return" /\ AccessCdist) =>
              (ret'.builds = 0 /\ SameArray(ret'.array, ret.array))]_vars

----------------------------------------------------------------------------
(* C3 *)

\* C3 as stated: a query answered right after the frame counter advanced has
\* triggered exactly one rebuild.
C3_AnyQueryRebuilds ==
    [][(ret.op = "frame" /\ ret'.op = "squared_distance" /\ ret'.outcome = "return") =>
          ret'.builds = 1]_vars

\* C3, amended: a query answered right after the frame counter advanced has
\* triggered exactly one rebuild, for the current frame, if it goes to the
\* cached structure (strategy 2 or 3, or strategy 1 with two different tags),
\* and none if it is a strategy 0 query or a strategy 1 query of equal tags.
C3_CacheQueryRebuildsOnce ==
    [][(ret.op = "frame" /\ ret'.op = "squared_distance" /\ ret'.outcome = "return") =>
          \A pair \in UnitPairs :
              (Use(pair[1], pair[2]) = ret'.use /\ Query(pair[1], pair[2])) =>
                  IF ReadsCache(pair[1], pair[2])
                  THEN /\ ret'.builds = 1 /\ builds_in_frame' = 1
                       /\ generated_frame2' = game_loop'
                  ELSE ret'.builds = 0 /\ UNCHANGED cache]_vars

\* a strategy 2 query of a later frame was answered after the frame's one rebuild
C3_Witness ==
    /\ ret.op = "squared_distance" /\ ret.outcome = "return"
    /\ distance_squared_unit_to_unit = "method2"
    /\ game_loop >= 1 /\ ret.builds = 1 /\ builds_in_frame = 1
    /\ generated_frame2 = game_loop

----------------------------------------------------------------------------
(* C4 *)

\* C4: Under strategy 1, a query of two units of the current frame with
\* different tags, issued in a frame for which nothing has been built yet,
\* rebuilds once and returns a value; it does not abort.
C4_StaleQueryAnswered ==
    [][(/\ distance_squared_unit_to_unit = "method1"
        /\ generated_frame2 # game_loop
        /\ ret'.op = "squared_distance") =>
          \A unit1 \in CurrentUnits, unit2 \in CurrentUnits :
              (unit1.tag # unit2.tag /\ Query(unit1, unit2)) =>
                  (ret'.outcome = "return" /\ ret'.builds = 1)]_vars

----------------------------------------------------------------------------
(* C5 *)

\* C5: Whichever strategy is selected, _pdist returns the condensed vector of
\* the current frame and _cdist the square matrix of the current frame.
C5_AccessorsReturnOwnKind ==
    /\ (ret.op = "pdist" /\ ret.outcome = "return") =>
           SameArray(ret.array, pdist(positions_array))
    /\ (ret.op = "cdist" /\ ret.outcome = "return") =>
           SameArray(ret.array, cdist(positions_array, positions_array))

----------------------------------------------------------------------------
(* C6 *)

\* C6: Under strategy 1, a query of two different tags in which a unit's
\* distance-calculation index lies outside [0, N) aborts: it returns no
\* distance.
C6_BadIndexAborts ==
    [][(distance_squared_unit_to_unit = "method1" /\ ret'.op = "squared_distance") =>
          \A pair \in UnitPairs :
              (/\ pair[1].tag # pair[2].tag
               /\ \/ pair[1].distance_calculation_index \notin 0..(units_count - 1)
                  \/ pair[2].distance_calculation_index \notin 0..(units_count - 1)
               /\ Query(pair[1], pair[2])) =>
                  ret'.outcome # "return"]_vars

----------------------------------------------------------------------------
(* C7 *)

\* the example of the round trip
RoundTripPositions == <<<<0, 0>>, <<3, 4>>, <<0, 4>>>>

\* C7: The index formula matches the build's enumeration order. For every N
\* and all 0 <= j < i < N, square_to_condensed(i, j) lies in [0, N*(N-1)/2),
\* different pairs get different offsets, and the condensed vector built for
\* the units holds at that offset the squared distance of units i and j,
\* which is entry [i][j] of the square matrix built for them; for positions
\* (0,0), (3,4), (0,4) the pairs 0-1, 0-2, 1-2 read 25, 16, 9.
C7_IndexMatchesEnumeration ==
    LET N == units_count
        Lower == {p \in (0..(N - 1)) \X (0..(N - 1)) : p[2] < p[1]}
        at(i, j) == square_to_condensed(i, j)
    IN  /\ \A p \in Lower :
               /\ at(p[1], p[2]).outcome = "return"
               /\ at(p[1], p[2]).value \in 0..((N * (N - 1)) \div 2 - 1)
               /\ \A q \in Lower : at(q[1], q[2]).value = at(p[1], p[2]).value => q = p
               /\ cached_pdist.kind = "vector" =>
                      /\ Index1(cached_pdist, at(p[1], p[2]).value).outcome = "return"
                      /\ Index1(cached_pdist, at(p[1], p[2]).value).value =
                             FrameDistance(p[1], p[2])
               /\ (cached_pdist.kind = "vector" /\ cached_cdist.kind = "matrix") =>
                      Index1(cached_pdist, at(p[1], p[2]).value).value =
                          Index2(cached_cdist, p[1], p[2]).value
        /\ (positions_array = RoundTripPositions /\ cached_pdist.kind = "vector") =>
               /\ Index1(cached_pdist, at(0, 1).value).value = 25
               /\ Index1(cached_pdist, at(0, 2).value).value = 16
               /\ Index1(cached_pdist, at(1, 2).value).value = 9
        /\ (positions_array = RoundTripPositions /\ cached_cdist.kind = "matrix") =>
               /\ Index2(cached_cdist, 0, 1).value = 25
               /\ Index2(cached_cdist, 0, 2).value = 16
               /\ Index2(cached_cdist, 1, 2).value = 9

\* both structures are built for the example's three units and the offset of
\* the pair 1-2 has been computed
C7_Witness ==
    /\ positions_array = RoundTripPositions
    /\ cached_pdist = Vector(<<25, 16, 9>>)
    /\ cached_cdist.kind = "matrix"
    /\ ret.op = "square_to_condensed" /\ ret.outcome = "return" /\ ret.value = 2

----------------------------------------------------------------------------
(* C8 *)

\* C8: Under strategy 2, the query of any two units of the current frame is
\* answered, and with the value strategy 0 computes for the same two units in
\* the same frame.
C8_DirectEqualsSquare ==
    [][(/\ distance_squared_unit_to_unit = "method2"
        /\ calculate_distances = "method2"
        /\ ret'.op = "squared_distance"
        /\ ret'.use \in {"self", "pair"}) =>
          \A unit1 \in CurrentUnits, unit2 \in CurrentUnits :
              Query(unit1, unit2) =>
                  /\ ret'.outcome = "return"
                  /\ ret'.value = distance_squared_unit_to_unit_method0(unit1, unit2).value]_vars

\* strategy 2 answered a query of two units of the frame that are apart
C8_Witness ==
    /\ distance_squared_unit_to_unit = "method2" /\ calculate_distances = "method2"
    /\ ret.op = "squared_distance" /\ ret.use = "pair" /\ ret.outcome = "return"
    /\ ret.value = 25

----------------------------------------------------------------------------
(* C9 *)

\* C9: Under every strategy, the query of a unit of the current frame with
\* itself returns 0.
C9_SelfDistanceZero ==
    (/\ ret.op = "squared_distance"
     /\ ret.use = "self"
     /\ distance_squared_unit_to_unit # "unbound") =>
        (ret.outcome = "return" /\ ret.value = 0)

\* strategy 3 answered a unit's query with itself from a structure it had to build
C9_Witness ==
    /\ ret.op = "squared_distance" /\ ret.use = "self" /\ ret.outcome = "return"
    /\ distance_squared_unit_to_unit = "method2" /\ calculate_distances = "method3"
    /\ ret.builds = 1 /\ ret.value = 0

----------------------------------------------------------------------------
(* C10 *)

\* C10: Once a strategy is selected and a query has been answered, a further
\* selection is rejected unless it names the active strategy: it leaves the
\* bound query function and the bound build function as they are.
C10_SwitchRejected ==
    [][(/\ distance_squared_unit_to_unit # "unbound"
        /\ ret.op = "squared_distance"
        /\ ret'.op = "select") => UNCHANGED binding]_vars

----------------------------------------------------------------------------
(* C11 *)

\* C11: Selecting a strategy mode outside 0..3 fails with an assertion error
\* and changes nothing: the bound query function, the bound build function,
\* the frame stamp and both cache slots are what they were before the call.
C11_OutOfRangeRejected ==
    [][\A method \in Modes :
          (~(0 <= method /\ method <= 3) /\ DistancesOverrideFunctions(method)) =>
              (ret'.outcome = "AssertionError" /\ UNCHANGED <<binding, cache>>)]_vars

\* an out-of-range selection was refused while strategy 1 was bound and its
\* condensed vector was cached for the current frame
C11_Witness ==
    /\ ret.op = "select" /\ ret.outcome = "AssertionError"
    /\ distance_squared_unit_to_unit = "method1" /\ calculate_distances = "method1"
    /\ cached_pdist.kind = "vector" /\ generated_frame2 = game_loop

----------------------------------------------------------------------------
(* C12 *)

\* C12: square_to_condensed(i, i) aborts for every i: it returns no offset,
\* and the frame stamp and both cached structures are what they were before.
C12_DiagonalAborts ==
    [][\A i \in 0..MaxN :
          SquareToCondensed(i, i) =>
              (ret'.outcome = "AssertionError" /\ UNCHANGED cache)]_vars

\* a diagonal lookup was refused while both structures were built
C12_Witness ==
    /\ ret.op = "square_to_condensed" /\ ret.outcome = "AssertionError"
    /\ cached_pdist.kind = "vector" /\ cached_cdist.kind = "matrix"
    /\ generated_frame2 = game_loop /\ units_count >= 2

----------------------------------------------------------------------------
(* C13 *)

\* C13: For every unit count N and all i # j, square_to_condensed(i, j) and
\* square_to_condensed(j, i) both return, and return the same offset.
C13_IndexSymmetric ==
    \A i \in -1..MaxN, j \in -1..MaxN :
        i # j => /\ square_to_condensed(i, j).outcome = "return"
                 /\ square_to_condensed(j, i).outcome = "return"
                 /\ square_to_condensed(i, j).value = square_to_condensed(j, i).value

\* with MaxN units, a lookup returned the offset that the pair 1-3 has in
\* either order of its indices
C13_Witness ==
    /\ units_count = MaxN
    /\ ret.op = "square_to_condensed" /\ ret.outcome = "return"
    /\ ret.value = square_to_condensed(1, 3).value
    /\ ret.value = square_to_condensed(3, 1).value

----------------------------------------------------------------------------
(* C14 *)

\* C14: In a frame without units, a build that runs (condensed, square or
\* unchecked square) completes: it stamps the current frame and stores a
\* structure of length zero, which a property read returns; and no query
\* returns a value read from a structure: a query that returns took the
\* equal-tag shortcut or computed directly, every other one aborts.
C14_EmptySetBuilds ==
    [][units_count = 0 =>
          /\ ret'.builds >= 1 =>
                 /\ generated_frame2' = game_loop
                 /\ calculate_distances = "method1" =>
                        SameArray(cached_pdist', Vector(<<>>))
                 /\ calculate_distances \in {"method2", "method3"} =>
                        SameArray(cached_cdist', Matrix(<<>>))
                 /\ ret'.op \in {"pdist", "cdist"} =>
                        (ret'.outcome = "return" /\ ArrayLen(ret'.array) = 0)
                 /\ ret'.outcome \in {"return", "IndexError"}
          /\ ret'.op = "squared_distance" =>
                 \A unit1 \in LeftUnits, unit2 \in LeftUnits :
                     (ReadsCache(unit1, unit2) /\ Query(unit1, unit2)) =>
                         ret'.outcome \in {"AssertionError", "IndexError", "TypeError"}]_vars

\* in a frame without units the unchecked square build ran for a query,
\* stored the empty matrix, and the query's lookup was refused
C14_Witness ==
    /\ units_count = 0
    /\ calculate_distances = "method3"
    /\ ret.op = "squared_distance" /\ ret.builds = 1 /\ ret.outcome = "IndexError"
    /\ SameArray(cached_cdist, Matrix(<<>>)) /\ generated_frame2 = game_loop

----------------------------------------------------------------------------
(* C15 *)

\* C15: The unit-to-points and the units-to-point function each yield one
\* distance per element of their input, in the input's order, each the
\* distance of that element from the fixed position; they read and build
\* no cached structure; an empty input yields an empty sequence, no error.
C15_OnePerElement ==
    [][/\ ret'.op = "distance_units_to_pos" =>
              LET units == ret'.use[1]
                  pos == ret'.use[2]
              IN  /\ ret'.outcome = "return" /\ ret'.builds = 0 /\ UNCHANGED cache
                  /\ ret'.array.kind = "generator"
                  /\ Len(ret'.array.data) = Len(units)
                  /\ \A k \in 1..Len(units) :
                         ret'.array.data[k] = LinearDistance(units[k].position_tuple, pos)
       /\ ret'.op = "distance_unit_to_points" =>
              LET unit == ret'.use[1]
                  points == ret'.use[2]
              IN  /\ ret'.outcome = "return" /\ ret'.builds = 0 /\ UNCHANGED cache
                  /\ ret'.array.kind = "generator"
                  /\ Len(ret'.array.data) = Len(points)
                  /\ \A k \in 1..Len(points) :
                         ret'.array.data[k] = LinearDistance(points[k], unit.position_tuple)]_vars

\* with both structures built, a unit's distances to two points came out as
\* 5 and 0, in the order of the points
C15_Witness ==
    /\ ret.op = "distance_unit_to_points" /\ ret.outcome = "return"
    /\ ret.use[2] = <<<<0, 0>>, <<3, 4>>>> /\ ret.array.data = <<5, 0>>
    /\ cached_pdist.kind = "vector" /\ cached_cdist.kind = "matrix"

\* an empty list of points gave an empty sequence
C15_WitnessEmpty ==
    /\ ret.op = "distance_unit_to_points" /\ ret.outcome = "return"
    /\ ret.use[2] = <<>> /\ ret.array.data = <<>>

----------------------------------------------------------------------------
(* C16 *)

\* C16: A build that aborts does not mark the cache valid: after a build that
\* was triggered in frame f and failed, the stamp is not f, and the cache
\* access that follows it in frame f rebuilds.
C16_AbortNotStamped ==
    [][/\ (ret'.builds >= 1 /\ ret'.outcome = "ValueError") =>
              generated_frame2' # game_loop'
       /\ (ret.builds >= 1 /\ ret.outcome = "ValueError" /\ ret'.op \in {"pdist", "cdist"}) =>
              ret'.builds = 1]_vars

----------------------------------------------------------------------------
(* C17 *)

\* C17 as stated: when the unit container was replaced while the frame
\* counter stood and a structure is stamped for that frame, a query of two of
\* the new units under a cached strategy builds nothing and is answered.
C17_SameFrameAnswered ==
    [][(/\ ret.op = "replace"
        /\ CachedStrategy
        /\ generated_frame2 = game_loop
        /\ ret'.op = "squared_distance") =>
          (ret'.builds = 0 /\ UNCHANGED cache /\ ret'.outcome = "return")]_vars

\* C17, amended: when the unit container was replaced while the frame counter
\* stood and a structure is stamped for that frame, a query of two of the new
\* units under a cached strategy builds nothing and leaves stamp and
\* structures as they are; if it reads the cache and returns, it returns the
\* entry the structure built for the earlier container holds at the new
\* units' indices (strategy 1: at the offset computed with the new count);
\* otherwise it aborts on an index or offset outside that structure.
C17_SameFrameNoRebuild ==
    [][(/\ ret.op = "replace"
        /\ CachedStrategy
        /\ generated_frame2 = game_loop
        /\ ret'.op = "squared_distance") =>
          /\ ret'.builds = 0 /\ UNCHANGED cache
          /\ ret'.outcome \in {"return", "IndexError", "AssertionError"}
          /\ \A unit1 \in CurrentUnits, unit2 \in CurrentUnits :
                 (/\ ReadsCache(unit1, unit2)
                  /\ Query(unit1, unit2)
                  /\ ret'.outcome = "return") =>
                     IF distance_squared_unit_to_unit = "method1"
                     THEN ret'.value =
                              Index1(cached_pdist,
                                     condensed_offset(unit1.distance_calculation_index,
                                                      unit2.distance_calculation_index)).value
                     ELSE ret'.value =
                              Index2(cached_cdist, unit1.distance_calculation_index,
                                     unit2.distance_calculation_index).value]_vars

\* the units now all stand on one point, the frame has seen one build, and a
\* strategy 2 query of two of them returned 25 without building
C17_Witness ==
    /\ distance_squared_unit_to_unit = "method2" /\ calculate_distances = "method2"
    /\ ret.op = "squared_distance" /\ ret.use = "pair" /\ ret.outcome = "return"
    /\ ret.builds = 0 /\ builds_in_frame = 1 /\ generated_frame2 = game_loop
    /\ \A k \in 1..units_count : all_units[k].position_tuple = <<0, 0>>
    /\ ret.value = 25

----------------------------------------------------------------------------
(* C18 *)

\* C18: A squared_distance query under strategy 0, and a point-to-point
\* distance call under any strategy, returns a value, runs no build and
\* leaves the frame stamp and both cached structures as they are, whether
\* or not the stamp is that of the current frame.
C18_DirectLeavesCache ==
    [][/\ (distance_squared_unit_to_unit = "method0" /\ ret'.op = "squared_distance") =>
              (ret'.outcome = "return" /\ ret'.builds = 0 /\ UNCHANGED cache)
       /\ ret'.op = "distance_pos_to_pos" =>
              (ret'.outcome = "return" /\ ret'.builds = 0 /\ UNCHANGED cache)]_vars

\* strategy 0 answered a query with 25 in a later frame while the square
\* matrix of an earlier frame lay in the cache, and built nothing
C18_Witness ==
    /\ distance_squared_unit_to_unit = "method0"
    /\ ret.op = "squared_distance" /\ ret.outcome = "return" /\ ret.value = 25
    /\ cached_cdist.kind = "matrix" /\ generated_frame2 # game_loop
    /\ builds_in_frame = 0

\* a point-to-point call returned 5 under strategy 2 in a frame not yet built
C18_WitnessPoints ==
    /\ distance_squared_unit_to_unit = "method2"
    /\ ret.op = "distance_pos_to_pos" /\ ret.outcome = "return" /\ ret.value = 5
    /\ generated_frame2 # game_loop

----------------------------------------------------------------------------
(* C19 *)

\* C19: Frame-stamp invariant. With a frame counter that never decreases,
\* after every step the stamp is its initial -100 or the frame of the most
\* recent build: it is no greater than the frame counter, it is no smaller
\* than it was, it changes only in a step that builds and then to the current
\* frame; and whenever it equals the frame counter, the slot of the active
\* strategy's kind (strategy 1: the condensed vector, strategies 2 and 3: the
\* square matrix) holds a structure.
C19_FrameStamp ==
    [][/\ game_loop' >= game_loop
       /\ generated_frame2' = -100 \/ generated_frame2' \in 0..game_loop'
       /\ generated_frame2' >= generated_frame2
       /\ ret'.builds >= 1 => generated_frame2' = game_loop'
       /\ generated_frame2' # generated_frame2 => ret'.builds >= 1
       /\ generated_frame2' = game_loop' =>
              /\ distance_squared_unit_to_unit' = "method1" => cached_pdist'.kind = "vector"
              /\ distance_squared_unit_to_unit' = "method2" => cached_cdist'.kind = "matrix"]_vars

====
